---------------------------- MODULE Spec2Model ----------------------------
(***************************************************************************)
(* Model of python/parse_binance_refdata.py (automatedalgo/apex): the      *)
(* normalisation of Binance exchange-info documents into instrument        *)
(* records and their serialisation to one CSV file.                        *)
(*                                                                         *)
(* Python values are modelled as follows.                                  *)
(*   str        a TLA+ string (Len, SubSeq and \o act on its characters)   *)
(*   list       a sequence                                                 *)
(*   JSON item  a record; "k in item" is  k \in DOMAIN item                *)
(*   dict row   a sequence of [k, v] entries in insertion order, v being a *)
(*              tagged value PyStr / PyInt / PyNone                        *)
(*   a call     [exc |-> "", val |-> v] when it returns v,                 *)
(*              [exc |-> "<ExceptionType>"] when it raises                 *)
(***************************************************************************)
EXTENDS Integers, Sequences, FiniteSets, TLC

VARIABLES
    pc,                 \* position of the script (or of the function call)
    args,               \* arguments of the function under study
    ret,                \* result of the function under study
    spot_info,          \* tmp/binance_exchange-info.json, parsed
    usdfut_info,        \* tmp/binance_usdfut_exchange-info.json, parsed
    coinfut_info,       \* tmp/binance_coinfut_exchange-info.json, parsed
    coin_rows,          \* main: coin_rows
    futures_rows,       \* main: futures_rows
    coinfut_rows,       \* main: coinfut_rows
    log_warn_once_msgs, \* module global log_warn_once_msgs
    diag,               \* diagnostics emitted so far (warnings and prints)
    assets_csv          \* tmp/binance_assets.csv

vars == <<pc, args, ret, spot_info, usdfut_info, coinfut_info, coin_rows,
          futures_rows, coinfut_rows, log_warn_once_msgs, diag, assets_csv>>

-----------------------------------------------------------------------------
(* Python values and built-ins                                             *)

PyStr(s) == [type |-> "str", s |-> s]
PyInt(n) == [type |-> "int", n |-> n]
PyNone == [type |-> "NoneType"]

Return(v) == [exc |-> "", val |-> v]
Raise(e) == [exc |-> e]

\* The printable ASCII characters in code point order: 32 (space) to 95, and
\* 97 to 126 (the grave accent, 96, is outside the alphabet of the model).
AsciiLow == " !\"#$%&'()*+,-./0123456789:;<=>?@ABCDEFGHIJKLMNOPQRSTUVWXYZ[\\]^_"

AsciiHigh == "abcdefghijklmnopqrstuvwxyz{|}~"

Char(s, i) == SubSeq(s, i, i)

\* ord(c) of a one-character string.
Ord(c) ==
    IF \E i \in 1..Len(AsciiLow) : Char(AsciiLow, i) = c
    THEN 31 + (CHOOSE i \in 1..Len(AsciiLow) : Char(AsciiLow, i) = c)
    ELSE 96 + (CHOOSE i \in 1..Len(AsciiHigh) : Char(AsciiHigh, i) = c)

\* a < b on str: by code point, a proper prefix first.
RECURSIVE StrLess(_, _)
StrLess(a, b) ==
    IF Len(b) = 0 THEN FALSE
    ELSE IF Len(a) = 0 THEN TRUE
    ELSE IF Char(a, 1) = Char(b, 1)
         THEN StrLess(SubSeq(a, 2, Len(a)), SubSeq(b, 2, Len(b)))
         ELSE Ord(Char(a, 1)) < Ord(Char(b, 1))

\* set(s) of a str: the set of its characters.
CharSet(s) == {Char(s, i) : i \in 1..Len(s)}

\* s.endswith(suffix)
endswith(s, suffix) ==
    /\ Len(suffix) <= Len(s)
    /\ SubSeq(s, Len(s) - Len(suffix) + 1, Len(s)) = suffix

\* s.find(sub) counted from 1, 0 when absent.
Find(s, sub) ==
    LET hits == {i \in 1..(Len(s) - Len(sub) + 1) :
                    SubSeq(s, i, i + Len(sub) - 1) = sub}
    IN IF hits = {} THEN 0 ELSE CHOOSE i \in hits : \A j \in hits : i <= j

\* s.split(sep), sep not empty: empty parts are kept.
RECURSIVE split(_, _)
split(s, sep) ==
    LET i == Find(s, sep)
    IN IF i = 0 THEN <<s>>
       ELSE <<SubSeq(s, 1, i - 1)>>
            \o split(SubSeq(s, i + Len(sep), Len(s)), sep)

\* s.replace(old, new), old not empty: every occurrence, left to right.
RECURSIVE replace(_, _, _)
replace(s, old, new) ==
    LET i == Find(s, old)
    IN IF i = 0 THEN s
       ELSE SubSeq(s, 1, i - 1) \o new
            \o replace(SubSeq(s, i + Len(old), Len(s)), old, new)

\* delim.join(parts)
RECURSIVE join(_, _)
join(delim, parts) ==
    IF Len(parts) = 0 THEN ""
    ELSE IF Len(parts) = 1 THEN parts[1]
    ELSE parts[1] \o delim \o join(delim, Tail(parts))

Digits == "0123456789"

IsDigit(c) == \E i \in 1..10 : Char(Digits, i) = c

DigitVal(c) == (CHOOSE i \in 1..10 : Char(Digits, i) = c) - 1

\* s.strip() for the one whitespace character of the alphabet.
RECURSIVE strip(_)
strip(s) ==
    IF Len(s) = 0 THEN s
    ELSE IF Char(s, 1) = " " THEN strip(SubSeq(s, 2, Len(s)))
    ELSE IF Char(s, Len(s)) = " " THEN strip(SubSeq(s, 1, Len(s) - 1))
    ELSE s

RECURSIVE DecimalVal(_)
DecimalVal(s) ==
    IF Len(s) = 0 THEN 0
    ELSE 10 * DecimalVal(SubSeq(s, 1, Len(s) - 1)) + DigitVal(Char(s, Len(s)))

\* int(t) for a text t without surrounding blanks: one sign is accepted,
\* then decimal digits.
int_stripped(t) ==
    LET signed == Len(t) > 0 /\ Char(t, 1) \in {"+", "-"}
        body == IF signed THEN SubSeq(t, 2, Len(t)) ELSE t
    IN IF Len(body) = 0 \/ \E i \in 1..Len(body) : ~IsDigit(Char(body, i))
       THEN Raise("ValueError")
       ELSE IF signed /\ Char(t, 1) = "-"
            THEN Return(0 - DecimalVal(body))
            ELSE Return(DecimalVal(body))

\* int(s): surrounding blanks are dropped first. (The digit separator "_"
\* cannot reach this call: the text was split on it.)
int(s) == int_stripped(strip(s))

\* s[i] for a Python index i: negative indices count from the end.
Index(s, i) ==
    IF 0 <= i /\ i < Len(s) THEN Return(Char(s, i + 1))
    ELSE IF i < 0 /\ 0 - Len(s) <= i THEN Return(Char(s, Len(s) + i + 1))
    ELSE Raise("IndexError")

RECURSIVE NatStr(_)
NatStr(n) ==
    IF n < 10 THEN Char(Digits, n + 1)
    ELSE NatStr(n \div 10) \o Char(Digits, (n % 10) + 1)

\* str(v)
str(v) ==
    IF v.type = "NoneType" THEN "None"
    ELSE IF v.type = "int"
         THEN (IF v.n < 0 THEN "-" \o NatStr(0 - v.n) ELSE NatStr(v.n))
         ELSE v.s

-----------------------------------------------------------------------------
(* simplify_future_native_code                                             *)

month_codes == "FGHJKMNQUVXZ"

\* return ".".join([month_code+year[1],'BNC']), month_code being the result
\* of indexing month_codes.
future_code(month_code, year) ==
    IF month_code.exc # "" THEN month_code
    ELSE Return(join(".", <<month_code.val \o Char(year, 2), "BNC">>))

\* As future_month_code, the month number used as the index.
future_month_code_no_offset(month, year) ==
    IF month.exc # "" THEN month
    ELSE future_code(Index(month_codes, month.val), year)

\* month_code = month_codes[month-1], month being the result of int(...).
future_month_code(month, year) ==
    IF month.exc # "" THEN month
    ELSE future_code(Index(month_codes, month.val - 1), year)

\* As future_parts, without the test of the length of the date part.
future_parts_unchecked_date(parts) ==
    IF Len(parts) # 2 THEN Raise("Exception")
    ELSE future_month_code(int(SubSeq(parts[2], 3, 4)), SubSeq(parts[2], 1, 2))

\* The function from parts = symbol.split("_") on.
future_parts(parts) ==
    IF Len(parts) # 2 THEN Raise("Exception")
    ELSE IF Len(parts[2]) # 6 THEN Raise("Exception")
    ELSE future_month_code(int(SubSeq(parts[2], 3, 4)), SubSeq(parts[2], 1, 2))

simplify_future_native_code(symbol) == future_parts(split(symbol, "_"))

-----------------------------------------------------------------------------
(* dict rows: entries [k, v] in insertion order                            *)

DictHas(d, key) == \E i \in 1..Len(d) : d[i].k = key

\* d.get(key, default)
DictGet(d, key, default) ==
    IF DictHas(d, key)
    THEN d[CHOOSE i \in 1..Len(d) : d[i].k = key].v
    ELSE default

\* d[key] = val: a present key keeps its position, a new one goes last.
DictSet(d, key, val) ==
    IF DictHas(d, key)
    THEN [i \in 1..Len(d) |-> IF d[i].k = key THEN [k |-> key, v |-> val]
                                             ELSE d[i]]
    ELSE Append(d, [k |-> key, v |-> val])

\* list(d.keys())
DictKeys(d) == [i \in 1..Len(d) |-> d[i].k]

-----------------------------------------------------------------------------
(* Diagnostics. lg is the logging state [msgs, diag]: the global set       *)
(* log_warn_once_msgs and the records emitted so far. diag holds the       *)
(* WARNING records and the print lines; INFO records are left out.         *)

Warning(msg) == [kind |-> "warning", msg |-> msg]
Printed(msg) == [kind |-> "print", msg |-> msg]

\* logging.warning(msg), and logging.warn(msg), its alias in the Python
\* versions that still have it (before 3.13).
logging_warning(lg, msg) == [lg EXCEPT !.diag = Append(@, Warning(msg))]

log_warn_once(lg, msg) ==
    IF msg \notin lg.msgs
    THEN logging_warning([lg EXCEPT !.msgs = @ \cup {msg}], msg)
    ELSE lg

print(lg, msg) == [lg EXCEPT !.diag = Append(@, Printed(msg))]

-----------------------------------------------------------------------------
(* parse_binance_spot_exchange_info                                        *)

spot_filters_to_ignore ==
    {"MAX_NUM_ALGO_ORDERS", "ICEBERG_PARTS", "MARKET_LOT_SIZE",
     "PERCENT_PRICE", "TRAILING_DELTA", "PERCENT_PRICE_BY_SIDE",
     "MAX_POSITION"}

\* "ignoring binance filter '{}'".format(filterType)
ignoring_filter_msg(filterType) ==
    "ignoring binance filter '" \o filterType \o "'"

\* One pass of the loop over item['filters']; st is [row, lg].
spot_filter(st, filter) ==
    LET filterType == filter.filterType
    IN IF filterType = "LOT_SIZE"
       THEN [st EXCEPT !.row =
                DictSet(DictSet(DictSet(@, "minQty", PyStr(filter.minQty)),
                                "maxQty", PyStr(filter.maxQty)),
                        "lotQty", PyStr(filter.stepSize))]
       ELSE IF filterType = "MIN_NOTIONAL"
       THEN [st EXCEPT !.row =
                DictSet(@, "minNotional", PyStr(filter.minNotional))]
       ELSE IF filterType = "PRICE_FILTER"
       THEN [st EXCEPT !.row = DictSet(@, "tickSize", PyStr(filter.tickSize))]
       ELSE IF filterType = "MAX_NUM_ORDERS"
       THEN [st EXCEPT !.row =
                DictSet(@, "maxNumOrders", PyInt(filter.maxNumOrders))]
       ELSE IF filterType \in spot_filters_to_ignore
       THEN st
       ELSE [st EXCEPT !.lg = log_warn_once(@, ignoring_filter_msg(filterType))]

RECURSIVE spot_filters(_, _)
spot_filters(st, filters) ==
    IF Len(filters) = 0 THEN st
    ELSE spot_filters(spot_filter(st, Head(filters)), Tail(filters))

\* The row of one item before its filters are read.
spot_row(item) ==
    LET asset_id_root == item.baseAsset \o "/" \o item.quoteAsset
    IN <<[k |-> "symbol", v |-> PyStr(item.symbol)],
         [k |-> "instId", v |-> PyStr(asset_id_root \o ".BNC")],
         [k |-> "type", v |-> PyStr("coinpair")],
         [k |-> "venue", v |-> PyStr("binance")],
         [k |-> "baseAsset", v |-> PyStr(item.baseAsset)],
         [k |-> "quoteAsset", v |-> PyStr(item.quoteAsset)],
         [k |-> "quoteAssetPrecision", v |-> PyInt(item.quoteAssetPrecision)],
         [k |-> "baseAssetPrecision", v |-> PyInt(item.baseAssetPrecision)],
         [k |-> "status", v |-> PyStr(item.status)]>>

\* rows.append(row), with the logging state the filters left; st is [row, lg].
append_row(acc, st) == [acc EXCEPT !.rows = Append(@, st.row), !.lg = st.lg]

\* One pass of the loop over symbols; acc is [rows, lg, exc].
spot_item(acc, item) ==
    append_row(acc, spot_filters([row |-> spot_row(item), lg |-> acc.lg],
                                 item.filters))

RECURSIVE spot_symbols(_, _)
spot_symbols(acc, symbols) ==
    IF Len(symbols) = 0 THEN acc
    ELSE spot_symbols(spot_item(acc, Head(symbols)), Tail(symbols))

\* data is the parsed document; lg the logging state at the call. The result
\* is [rows, lg, exc]: the returned list, the logging state at the end, and
\* the exception raised ("" when the function returns).
parse_binance_spot_exchange_info(data, lg) ==
    spot_symbols([rows |-> <<>>, lg |-> lg, exc |-> ""], data.symbols)

-----------------------------------------------------------------------------
(* parse_binance_usdfut_exchange_info                                      *)

normalise_contractType(contractType) ==
    IF contractType = "PERPETUAL" THEN <<PyStr("perp"), PyStr("PF")>>
    ELSE IF contractType \in {"CURRENT_QUARTER", "NEXT_QUARTER"}
    THEN <<PyStr("future"), PyStr("")>>
    ELSE <<PyNone, PyNone>>

\* The print of normalise_contractType on its last path.
normalise_contractType_print(lg, contractType) ==
    IF contractType = "PERPETUAL"
       \/ contractType \in {"CURRENT_QUARTER", "NEXT_QUARTER"}
    THEN lg
    ELSE print(lg, "unhandled contract type: " \o contractType)

usdfut_filters_to_ignore ==
    {"MAX_NUM_ALGO_ORDERS", "ICEBERG_PARTS", "MARKET_LOT_SIZE",
     "PERCENT_PRICE"}

\* As usdfut_filter, MIN_NOTIONAL stored under the key of PRICE_FILTER.
usdfut_filter_notional_as_tick(st, filter) ==
    IF filter.filterType = "LOT_SIZE"
    THEN [st EXCEPT !.row =
             DictSet(DictSet(DictSet(@, "minQty", PyStr(filter.minQty)),
                             "maxQty", PyStr(filter.maxQty)),
                     "lotQty", PyStr(filter.stepSize))]
    ELSE IF filter.filterType = "MIN_NOTIONAL"
    THEN [st EXCEPT !.row = DictSet(@, "tickSize", PyStr(filter.notional))]
    ELSE IF filter.filterType = "PRICE_FILTER"
    THEN [st EXCEPT !.row = DictSet(@, "tickSize", PyStr(filter.tickSize))]
    ELSE IF filter.filterType = "MAX_NUM_ORDERS"
    THEN [st EXCEPT !.row = DictSet(@, "maxNumOrders", PyInt(filter.limit))]
    ELSE IF filter.filterType \in usdfut_filters_to_ignore
    THEN st
    ELSE [st EXCEPT !.lg =
             logging_warning(@, ignoring_filter_msg(filter.filterType))]

usdfut_filter(st, filter) ==
    LET filterType == filter.filterType
    IN IF filterType = "LOT_SIZE"
       THEN [st EXCEPT !.row =
                DictSet(DictSet(DictSet(@, "minQty", PyStr(filter.minQty)),
                                "maxQty", PyStr(filter.maxQty)),
                        "lotQty", PyStr(filter.stepSize))]
       ELSE IF filterType = "MIN_NOTIONAL"
       THEN [st EXCEPT !.row =
                DictSet(@, "minNotional", PyStr(filter.notional))]
       ELSE IF filterType = "PRICE_FILTER"
       THEN [st EXCEPT !.row = DictSet(@, "tickSize", PyStr(filter.tickSize))]
       ELSE IF filterType = "MAX_NUM_ORDERS"
       THEN [st EXCEPT !.row = DictSet(@, "maxNumOrders", PyInt(filter.limit))]
       ELSE IF filterType \in usdfut_filters_to_ignore
       THEN st
       ELSE [st EXCEPT !.lg =
                logging_warning(@, ignoring_filter_msg(filterType))]

RECURSIVE usdfut_filters(_, _)
usdfut_filters(st, filters) ==
    IF Len(filters) = 0 THEN st
    ELSE usdfut_filters(usdfut_filter(st, Head(filters)), Tail(filters))

\* row["instId"] of a classified item, as left by the if/elif/else chain.
usdfut_instId(assetType, symbol, asset_id_root) ==
    IF assetType = PyStr("perp") /\ ~endswith(symbol, "_PERP")
    THEN asset_id_root \o ".PF.BNC"
    ELSE IF assetType = PyStr("perp") /\ endswith(symbol, ".PERP")
    THEN replace(symbol, "_PERP", ".PF") \o ".BNC"
    ELSE asset_id_root \o ".BNC"

\* The fields of a classified item that are set before its filters are read.
usdfut_fields(item, venue, assetType, instId) ==
    <<[k |-> "symbol", v |-> PyStr(item.symbol)],
      [k |-> "instId", v |-> PyStr(instId)],
      [k |-> "type", v |-> assetType],
      [k |-> "venue", v |-> PyStr(venue)],
      [k |-> "baseAsset", v |-> PyStr(item.baseAsset)],
      [k |-> "quoteAsset", v |-> PyStr(item.quoteAsset)],
      [k |-> "marginAsset", v |-> PyStr(item.marginAsset)],
      [k |-> "quoteAssetPrecision", v |-> PyInt(item.quotePrecision)],
      [k |-> "baseAssetPrecision", v |-> PyInt(item.baseAssetPrecision)],
      [k |-> "status",
       v |-> IF "status" \in DOMAIN item THEN PyStr(item.status)
             ELSE IF "contractStatus" \in DOMAIN item
                  THEN PyStr(item.contractStatus)
                  ELSE PyStr("unknown")],
      [k |-> "underlyingType",
       v |-> IF "underlyingType" \in DOMAIN item
             THEN PyStr(item.underlyingType) ELSE PyNone],
      [k |-> "contractType",
       v |-> IF "contractType" \in DOMAIN item
             THEN PyStr(item.contractType) ELSE PyNone]>>

\* The row of a future, code being the result of simplify_future_native_code:
\* its exception leaves the function.
usdfut_future_row(item, venue, assetType, code) ==
    IF code.exc # "" THEN code
    ELSE Return(usdfut_fields(item, venue, assetType,
                              item.baseAsset \o "/" \o item.quoteAsset
                              \o "." \o code.val))

\* The row of a classified item before its filters are read, as a call result.
usdfut_row(item, venue, assetType) ==
    IF assetType = PyStr("future")
    THEN usdfut_future_row(item, venue, assetType,
                           simplify_future_native_code(item.symbol))
    ELSE Return(usdfut_fields(item, venue, assetType,
                              usdfut_instId(assetType, item.symbol,
                                            item.baseAsset \o "/"
                                            \o item.quoteAsset)))

\* The rest of one pass once the row is built (or the exception raised).
usdfut_add_row(acc, item, row) ==
    IF row.exc # "" THEN [acc EXCEPT !.exc = row.exc]
    ELSE append_row(acc, usdfut_filters([row |-> row.val, lg |-> acc.lg],
                                        item.filters))

\* As usdfut_classified, an unclassified item being fatal.
usdfut_classified_fatal(acc, item, venue, assetType) ==
    IF assetType = PyNone THEN [acc EXCEPT !.exc = "Exception"]
    ELSE usdfut_add_row(acc, item, usdfut_row(item, venue, assetType))

\* The pass from the test of assetType on: None skips the item.
usdfut_classified(acc, item, venue, assetType) ==
    IF assetType = PyNone THEN acc
    ELSE usdfut_add_row(acc, item, usdfut_row(item, venue, assetType))

\* One pass of the loop over symbols; acc is [rows, lg, exc].
usdfut_item(acc, item, venue) ==
    usdfut_classified(
        [acc EXCEPT !.lg = normalise_contractType_print(@, item.contractType)],
        item, venue, normalise_contractType(item.contractType)[1])

\* The loop over symbols: an exception ends it.
RECURSIVE usdfut_symbols(_, _, _)
usdfut_symbols(acc, symbols, venue) ==
    IF Len(symbols) = 0 \/ acc.exc # "" THEN acc
    ELSE usdfut_symbols(usdfut_item(acc, Head(symbols), venue),
                        Tail(symbols), venue)

parse_binance_usdfut_exchange_info(data, venue, lg) ==
    usdfut_symbols([rows |-> <<>>, lg |-> lg, exc |-> ""], data.symbols, venue)

-----------------------------------------------------------------------------
(* extract_header_cols and write_csv_file                                  *)

\* The keys of all rows, in the order the two nested loops visit them.
RECURSIVE all_keys(_)
all_keys(rows) ==
    IF Len(rows) = 0 THEN <<>>
    ELSE DictKeys(Head(rows)) \o all_keys(Tail(rows))

Range(seq) == {seq[i] : i \in 1..Len(seq)}

\* The body of the inner loop; h is [header_cols, header_cols_unique].
RECURSIVE header_loop(_, _)
header_loop(h, keys) ==
    IF Len(keys) = 0 THEN h
    ELSE IF Head(keys) \notin h.header_cols_unique
    THEN LET cols == Append(h.header_cols, Head(keys))
         IN header_loop([header_cols |-> cols,
                         header_cols_unique |-> Range(cols)],
                        Tail(keys))
    ELSE header_loop(h, Tail(keys))

\* header_cols_unique starts as set(index_field): the characters of the name.
extract_header_cols(rows, index_field) ==
    header_loop([header_cols |-> <<index_field>>,
                 header_cols_unique |-> CharSet(index_field)],
                all_keys(rows)).header_cols

\* a < b between two dictionary keys of the same type.
KeyLess(a, b) == IF a.type = "str" THEN StrLess(a.s, b.s) ELSE a.n < b.n

\* sorted(keys) can compare its elements: fewer than two, all str or all int.
Sortable(keys) ==
    \/ Cardinality(keys) <= 1
    \/ \A a \in keys : a.type = "str"
    \/ \A a \in keys : a.type = "int"

RECURSIVE sorted(_)
sorted(keys) ==
    IF keys = {} THEN <<>>
    ELSE LET least == CHOOSE a \in keys :
                         \A b \in keys \ {a} : KeyLess(a, b)
         IN <<least>> \o sorted(keys \ {least})

\* line of one row: [row.get(col, "") for col in header_cols]
csv_line(row, header_cols) ==
    [i \in 1..Len(header_cols) |-> DictGet(row, header_cols[i], PyStr(""))]

\* As csv_rows, a later record with the same key replacing the earlier one.
RECURSIVE csv_rows_keep_last(_, _, _, _)
csv_rows_keep_last(w, rows, index_field, header_cols) ==
    IF Len(rows) = 0 THEN w
    ELSE IF ~DictHas(Head(rows), index_field)
    THEN [w EXCEPT !.exc = "KeyError"]
    ELSE csv_rows_keep_last(
             [w EXCEPT !.lines =
                 DictSet(@, DictGet(Head(rows), index_field, PyNone),
                         csv_line(Head(rows), header_cols))],
             Tail(rows), index_field, header_cols)

\* The loop that fills lines; w is [lines, lg, exc], lines a dict keyed by
\* row id. row[index_field] raises KeyError on a row without the field.
RECURSIVE csv_rows(_, _, _, _)
csv_rows(w, rows, index_field, header_cols) ==
    IF Len(rows) = 0 THEN w
    ELSE LET row == Head(rows)
             row_id == DictGet(row, index_field, PyNone)
         IN IF ~DictHas(row, index_field)
            THEN [w EXCEPT !.exc = "KeyError"]
            ELSE IF DictHas(w.lines, row_id)
            THEN csv_rows([w EXCEPT !.lg =
                              print(@, "ignoring duplicate row for '"
                                       \o str(row_id) \o "'")],
                          Tail(rows), index_field, header_cols)
            ELSE csv_rows([w EXCEPT !.lines =
                              DictSet(@, row_id, csv_line(row, header_cols))],
                          Tail(rows), index_field, header_cols)

\* The text lines written after the header, one per sorted key.
csv_text(lines, keys, delim) ==
    [i \in 1..Len(keys) |->
        LET line == DictGet(lines, keys[i], <<>>)
        IN join(delim, [j \in 1..Len(line) |-> str(line[j])])]

NoFile == [exists |-> FALSE]
File(text) == [exists |-> TRUE, text |-> text]

\* The with-block: w is the result of the loop over rows, header the first
\* line. sorted() raises after the header is written.
csv_write(old, w, header, delim) ==
    IF w.exc # ""
    THEN [file |-> old, lg |-> w.lg, exc |-> w.exc]
    ELSE IF ~Sortable(Range(DictKeys(w.lines)))
    THEN [file |-> File(<<header>>), lg |-> w.lg, exc |-> "TypeError"]
    ELSE [file |-> File(<<header>>
                        \o csv_text(w.lines,
                                    sorted(Range(DictKeys(w.lines))), delim)),
          lg |-> w.lg, exc |-> ""]

\* The function from the computed header_cols on.
csv_with_header(old, rows, index_field, delim, lg, header_cols) ==
    csv_write(old,
              csv_rows([lines |-> <<>>, lg |-> lg, exc |-> ""],
                       rows, index_field, header_cols),
              join(delim, header_cols), delim)

\* The result is [file, lg, exc]: the file fn after the call (old when it is
\* not opened), the logging state, and the exception raised if any. The file
\* is a sequence of lines, each written with its "\n".
write_csv_file(old, rows, index_field, delim, lg) ==
    csv_with_header(old, rows, index_field, delim, lg,
                    extract_header_cols(rows, index_field))

-----------------------------------------------------------------------------
(* Input documents                                                         *)

MaxSpotItems == 1       \* symbols of the spot document
MaxUsdFutItems == 2     \* symbols of the USD-margined futures document
MaxCoinFutItems == 3    \* symbols of the coin-margined futures document

LotSize(minQty, maxQty, stepSize) ==
    [filterType |-> "LOT_SIZE", minQty |-> minQty, maxQty |-> maxQty,
     stepSize |-> stepSize]
PriceFilter(tickSize) == [filterType |-> "PRICE_FILTER", tickSize |-> tickSize]
SpotMinNotional(v) == [filterType |-> "MIN_NOTIONAL", minNotional |-> v]
SpotMaxNumOrders(n) == [filterType |-> "MAX_NUM_ORDERS", maxNumOrders |-> n]
FutMinNotional(v) == [filterType |-> "MIN_NOTIONAL", notional |-> v]
FutMaxNumOrders(n) == [filterType |-> "MAX_NUM_ORDERS", limit |-> n]
OtherFilter(tag) == [filterType |-> tag]

SpotItem(base, quote, filters) ==
    [symbol |-> base \o quote, baseAsset |-> base, quoteAsset |-> quote,
     quoteAssetPrecision |-> 8, baseAssetPrecision |-> 8,
     status |-> "TRADING", filters |-> filters]

FutItem(symbol, base, quote, contractType, filters) ==
    [symbol |-> symbol, baseAsset |-> base, quoteAsset |-> quote,
     marginAsset |-> quote, contractType |-> contractType,
     quotePrecision |-> 8, baseAssetPrecision |-> 8, filters |-> filters]

With(item, key, val) ==
    [f \in DOMAIN item \cup {key} |-> IF f = key THEN val ELSE item[f]]

SpotItems ==
    {SpotItem("BTC", "USDT",
              <<LotSize("0.00001", "9000", "0.00001"), SpotMinNotional("5"),
                PriceFilter("0.01"), OtherFilter("NOTIONAL")>>),
     SpotItem("BTC", "USD",
              <<OtherFilter("TRAILING_DELTA"), SpotMaxNumOrders(200),
                OtherFilter("NOTIONAL")>>)}

UsdFutItems ==
    {With(With(FutItem("BTCUSDT", "BTC", "USDT", "PERPETUAL",
                       <<LotSize("0.001", "1000", "0.001"),
                         OtherFilter("NOTIONAL")>>),
               "status", "TRADING"), "underlyingType", "COIN"),
     With(With(FutItem("BTCUSDT_240329", "BTC", "USDT", "CURRENT_QUARTER",
                       <<PriceFilter("0.1"), FutMinNotional("5"),
                         OtherFilter("PERCENT_PRICE")>>),
               "contractStatus", "PENDING_TRADING"), "underlyingType", "COIN"),
     With(FutItem("ETHUSDT_231229", "ETH", "USDT", "CURRENT_QUARTER DELIVERING",
                  <<OtherFilter("NOTIONAL")>>),
          "status", "DELIVERING"),
     With(FutItem("BTCUSDT_2403", "BTC", "USDT", "NEXT_QUARTER",
                  <<OtherFilter("NOTIONAL")>>),
          "status", "TRADING")}

CoinFutItems ==
    {FutItem("BTCUSD_PERP", "BTC", "USD", "PERPETUAL",
             <<FutMaxNumOrders(200), OtherFilter("TRAILING_DELTA")>>),
     With(With(FutItem("BTCUSD240329", "BTC", "USD", "CURRENT_QUARTER",
                       <<OtherFilter("NOTIONAL")>>),
               "status", "TRADING"), "contractStatus", "TRADING"),
     With(FutItem("ETHUSD", "ETH", "USD", "", <<OtherFilter("NOTIONAL")>>),
          "contractStatus", "PENDING_TRADING")}

\* The sequences over S of length at most n.
SeqsUpTo(S, n) == UNION {[1..m -> S] : m \in 0..n}

Documents(items, n) == {[symbols |-> syms] : syms \in SeqsUpTo(items, n)}

-----------------------------------------------------------------------------
(* main                                                                    *)

Unused == <<>>

Init ==
    /\ pc = "start"
    /\ args = Unused
    /\ ret = Unused
    /\ spot_info \in Documents(SpotItems, MaxSpotItems)
    /\ usdfut_info \in Documents(UsdFutItems, MaxUsdFutItems)
    /\ coinfut_info \in Documents(CoinFutItems, MaxCoinFutItems)
    /\ coin_rows = <<>>
    /\ futures_rows = <<>>
    /\ coinfut_rows = <<>>
    /\ log_warn_once_msgs = {}
    /\ diag = <<>>
    /\ assets_csv = NoFile

Logging == [msgs |-> log_warn_once_msgs, diag |-> diag]

\* coin_rows = parse_binance_spot_exchange_info(fn)
ParseSpot ==
    /\ pc = "start"
    /\ \E r \in {parse_binance_spot_exchange_info(spot_info, Logging)} :
          /\ coin_rows' = r.rows
          /\ log_warn_once_msgs' = r.lg.msgs
          /\ diag' = r.lg.diag
    /\ pc' = "spot_parsed"
    /\ UNCHANGED <<args, ret, spot_info, usdfut_info, coinfut_info,
                   futures_rows, coinfut_rows, assets_csv>>

\* futures_rows = parse_binance_usdfut_exchange_info(fn, venue="binance_usdfut")
ParseUsdFut ==
    /\ pc = "spot_parsed"
    /\ \E r \in {parse_binance_usdfut_exchange_info(usdfut_info,
                                                      "binance_usdfut",
                                                      Logging)} :
          /\ futures_rows' = IF r.exc = "" THEN r.rows ELSE futures_rows
          /\ pc' = IF r.exc = "" THEN "usdfut_parsed" ELSE "aborted"
          /\ log_warn_once_msgs' = r.lg.msgs
          /\ diag' = r.lg.diag
    /\ UNCHANGED <<args, ret, spot_info, usdfut_info, coinfut_info,
                   coin_rows, coinfut_rows, assets_csv>>

\* coinfut_rows = parse_binance_usdfut_exchange_info(fn, venue="binance_coinfut")
ParseCoinFut ==
    /\ pc = "usdfut_parsed"
    /\ \E r \in {parse_binance_usdfut_exchange_info(coinfut_info,
                                                      "binance_coinfut",
                                                      Logging)} :
          /\ coinfut_rows' = IF r.exc = "" THEN r.rows ELSE coinfut_rows
          /\ pc' = IF r.exc = "" THEN "coinfut_parsed" ELSE "aborted"
          /\ log_warn_once_msgs' = r.lg.msgs
          /\ diag' = r.lg.diag
    /\ UNCHANGED <<args, ret, spot_info, usdfut_info, coinfut_info,
                   coin_rows, futures_rows, assets_csv>>

\* write_csv_file(outfn, [*coin_rows, *futures_rows, *coinfut_rows], "instId")
WriteCsv ==
    /\ pc = "coinfut_parsed"
    /\ \E r \in {write_csv_file(assets_csv,
                               coin_rows \o futures_rows \o coinfut_rows,
                               "instId", ",", Logging)} :
          /\ assets_csv' = r.file
          /\ pc' = IF r.exc = "" THEN "done" ELSE "aborted"
          /\ log_warn_once_msgs' = r.lg.msgs
          /\ diag' = r.lg.diag
    /\ UNCHANGED <<args, ret, spot_info, usdfut_info, coinfut_info,
                   coin_rows, futures_rows, coinfut_rows>>

Next == ParseSpot \/ ParseUsdFut \/ ParseCoinFut \/ WriteCsv

Spec == Init /\ [][Next]_vars

-----------------------------------------------------------------------------
(* simplify_future_native_code on its own: one call per behaviour          *)

FutureRoots == {"BTCUSDT", "BTCUSD", ""}
FutureYears == {"24", "25", "30"}
FutureDays == {"01", "29"}
TwoDigitTexts == {Char(Digits, i) \o Char(Digits, j) : i, j \in 1..10}

\* <root>_<YYMMDD>
FutureSymbol(root, yy, mm, dd) == root \o "_" \o yy \o mm \o dd

OtherSymbols ==
    {"BTCUSD", "BTC_USD_240329", "X_12345", "BTCUSD_2403299", "BTCUSD_PERP",
     "BTCUSD_24-329", "BTCUSD_24+329", "BTCUSD_24 329", "BTCUSD_24ab29",
     "BTCUSD_24  29", "_"}

FutureSymbols ==
    {FutureSymbol(root, yy, mm, dd) :
        root \in FutureRoots, yy \in FutureYears, mm \in TwoDigitTexts,
        dd \in FutureDays}
    \cup OtherSymbols

InitFuture ==
    /\ pc = "call"
    /\ args \in FutureSymbols
    /\ ret = Unused
    /\ spot_info = Unused /\ usdfut_info = Unused /\ coinfut_info = Unused
    /\ coin_rows = Unused /\ futures_rows = Unused /\ coinfut_rows = Unused
    /\ log_warn_once_msgs = {} /\ diag = <<>> /\ assets_csv = NoFile

CallSimplify ==
    /\ pc = "call"
    /\ ret' = simplify_future_native_code(args)
    /\ pc' = "done"
    /\ UNCHANGED <<args, spot_info, usdfut_info, coinfut_info, coin_rows,
                   futures_rows, coinfut_rows, log_warn_once_msgs, diag,
                   assets_csv>>

NextFuture == CallSimplify

SpecFuture == InitFuture /\ [][NextFuture]_vars

-----------------------------------------------------------------------------
(* extract_header_cols on its own                                          *)

MaxHeaderRows == 2  \* records per list
MaxHeaderCols == 2  \* fields per record

HeaderFields == {"a", "b", "c", "id", "d"}
HeaderKeyFields == {"a", "id"}

\* A record with the given field names, in that order.
RowOf(keys) == [i \in 1..Len(keys) |-> [k |-> keys[i], v |-> PyInt(i)]]

IsInjective(seq) == \A i, j \in 1..Len(seq) : seq[i] = seq[j] => i = j

HeaderRows ==
    {RowOf(keys) : keys \in {ks \in SeqsUpTo(HeaderFields, MaxHeaderCols) :
                                IsInjective(ks)}}

InitHeader ==
    /\ pc = "call"
    /\ args \in [rows : SeqsUpTo(HeaderRows, MaxHeaderRows),
                 index_field : HeaderKeyFields]
    /\ ret = Unused
    /\ spot_info = Unused /\ usdfut_info = Unused /\ coinfut_info = Unused
    /\ coin_rows = Unused /\ futures_rows = Unused /\ coinfut_rows = Unused
    /\ log_warn_once_msgs = {} /\ diag = <<>> /\ assets_csv = NoFile

CallExtractHeader ==
    /\ pc = "call"
    /\ ret' = extract_header_cols(args.rows, args.index_field)
    /\ pc' = "done"
    /\ UNCHANGED <<args, spot_info, usdfut_info, coinfut_info, coin_rows,
                   futures_rows, coinfut_rows, log_warn_once_msgs, diag,
                   assets_csv>>

NextHeader == CallExtractHeader

SpecHeader == InitHeader /\ [][NextHeader]_vars

-----------------------------------------------------------------------------
(* write_csv_file on its own                                               *)

MaxCsvRows == 3     \* records per list

CsvKeys == {"A/B.BNC", "A/B.PF.BNC", "a/B.BNC"}
CsvSymbols == {"AB", "AB_PERP"}

\* Records that carry the key field instId with a str value, as main's do.
CsvRows ==
    {<<[k |-> "symbol", v |-> PyStr(sym)], [k |-> "instId", v |-> PyStr(id)]>> :
        sym \in CsvSymbols, id \in CsvKeys}
    \cup
    {<<[k |-> "symbol", v |-> PyStr(sym)], [k |-> "instId", v |-> PyStr(id)],
       [k |-> "underlyingType", v |-> PyNone]>> :
        sym \in CsvSymbols, id \in CsvKeys}

InitCsv ==
    /\ pc = "call"
    /\ args \in [rows : SeqsUpTo(CsvRows, MaxCsvRows), index_field : {"instId"},
                 delim : {","}]
    /\ ret = Unused
    /\ spot_info = Unused /\ usdfut_info = Unused /\ coinfut_info = Unused
    /\ coin_rows = Unused /\ futures_rows = Unused /\ coinfut_rows = Unused
    /\ log_warn_once_msgs = {} /\ diag = <<>> /\ assets_csv = NoFile

CallWriteCsv ==
    /\ pc = "call"
    /\ \E r \in {write_csv_file(assets_csv, args.rows, args.index_field,
                               args.delim, Logging)} :
          /\ assets_csv' = r.file
          /\ ret' = r.exc
          /\ log_warn_once_msgs' = r.lg.msgs
          /\ diag' = r.lg.diag
    /\ pc' = "done"
    /\ UNCHANGED <<args, spot_info, usdfut_info, coinfut_info, coin_rows,
                   futures_rows, coinfut_rows>>

NextCsv == CallWriteCsv

SpecCsv == InitCsv /\ [][NextCsv]_vars

-----------------------------------------------------------------------------
(* The two normalizers on one item whose filter list is given twice, in    *)
(* two orders                                                              *)

MaxFilters == 3     \* entries per filter list

SpotFilterEntries ==
    {LotSize("0.1", "9000", "0.1"), LotSize("1", "100", "1"),
     SpotMinNotional("5"), PriceFilter("0.01"), OtherFilter("NOTIONAL")}

FutFilterEntries ==
    {LotSize("0.1", "9000", "0.1"), LotSize("1", "100", "1"),
     FutMinNotional("5"), PriceFilter("0.01"), OtherFilter("NOTIONAL")}

\* The orders of the list fs.
Orders(fs) ==
    {[i \in 1..Len(fs) |-> fs[p[i]]] :
        p \in {q \in [1..Len(fs) -> 1..Len(fs)] : IsInjective(q)}}

FilterArgs(segment, entries) ==
    UNION {{[segment |-> segment, filters |-> fs, permuted |-> ps] :
               ps \in Orders(fs)} : fs \in SeqsUpTo(entries, MaxFilters)}

InitFilters ==
    /\ pc = "call"
    /\ args \in FilterArgs("spot", SpotFilterEntries)
                \cup FilterArgs("usdfut", FutFilterEntries)
    /\ ret = Unused
    /\ spot_info = Unused /\ usdfut_info = Unused /\ coinfut_info = Unused
    /\ coin_rows = Unused /\ futures_rows = Unused /\ coinfut_rows = Unused
    /\ log_warn_once_msgs = {} /\ diag = <<>> /\ assets_csv = NoFile

SpotDoc(filters) == [symbols |-> <<SpotItem("BTC", "USDT", filters)>>]
FutDoc(filters) ==
    [symbols |-> <<FutItem("BTCUSDT", "BTC", "USDT", "PERPETUAL", filters)>>]

\* parse_binance_spot_exchange_info on the item with either filter list
CallSpotTwice ==
    /\ pc = "call"
    /\ args.segment = "spot"
    /\ \E r1 \in {parse_binance_spot_exchange_info(SpotDoc(args.filters),
                                                  Logging)} :
       \E r2 \in {parse_binance_spot_exchange_info(SpotDoc(args.permuted),
                                                  r1.lg)} :
          /\ ret' = [given |-> r1.rows, permuted |-> r2.rows]
          /\ log_warn_once_msgs' = r2.lg.msgs
          /\ diag' = r2.lg.diag
    /\ pc' = "done"
    /\ UNCHANGED <<args, spot_info, usdfut_info, coinfut_info, coin_rows,
                   futures_rows, coinfut_rows, assets_csv>>

\* parse_binance_usdfut_exchange_info on the item with either filter list
CallUsdFutTwice ==
    /\ pc = "call"
    /\ args.segment = "usdfut"
    /\ \E r1 \in {parse_binance_usdfut_exchange_info(FutDoc(args.filters),
                                                    "binance_usdfut",
                                                    Logging)} :
       \E r2 \in {parse_binance_usdfut_exchange_info(FutDoc(args.permuted),
                                                    "binance_usdfut",
                                                    r1.lg)} :
          /\ ret' = [given |-> r1.rows, permuted |-> r2.rows]
          /\ log_warn_once_msgs' = r2.lg.msgs
          /\ diag' = r2.lg.diag
    /\ pc' = "done"
    /\ UNCHANGED <<args, spot_info, usdfut_info, coinfut_info, coin_rows,
                   futures_rows, coinfut_rows, assets_csv>>

NextFilters == CallSpotTwice \/ CallUsdFutTwice

SpecFilters == InitFilters /\ [][NextFilters]_vars

-----------------------------------------------------------------------------
(* Properties of a parse run (Spec)                                        *)

\* The str value of a field of a record.
Field(row, key) == DictGet(row, key, PyNone).s

DerivativeRows == Range(futures_rows) \cup Range(coinfut_rows)

FutureTypes == {"CURRENT_QUARTER", "NEXT_QUARTER"}

Classifiable(item) == item.contractType \in {"PERPETUAL"} \cup FutureTypes

\* A future whose symbol breaks the <root>_<YYMMDD> convention.
MalformedFuture(item) ==
    /\ item.contractType \in FutureTypes
    /\ \/ Len(split(item.symbol, "_")) # 2
       \/ Len(split(item.symbol, "_")[2]) # 6

HasMalformedFuture(data) ==
    \E i \in 1..Len(data.symbols) : MalformedFuture(data.symbols[i])

HasFuture(data) ==
    \E i \in 1..Len(data.symbols) : data.symbols[i].contractType \in FutureTypes

\* C1: every derivative record of a PERPETUAL item whose native symbol ends
\* with "_PERP" has instId "<baseAsset>/<quoteAsset>.PF.BNC".
C1_PerpSymbolInstId ==
    \A r \in DerivativeRows :
        (/\ Field(r, "contractType") = "PERPETUAL"
         /\ endswith(Field(r, "symbol"), "_PERP"))
        => Field(r, "instId")
           = Field(r, "baseAsset") \o "/" \o Field(r, "quoteAsset") \o ".PF.BNC"

\* C2: within one parse run no warning message is emitted twice, whichever
\* segment the records that cause it belong to.
C2_WarnOncePerRun ==
    \A i, j \in 1..Len(diag) :
        (/\ diag[i].kind = "warning"
         /\ diag[j].kind = "warning"
         /\ diag[i].msg = diag[j].msg)
        => i = j

\* C6: a malformed future anywhere in a derivative document aborts the run:
\* the normalizer returns no list, write_csv_file is not reached and no CSV
\* file exists; and a run aborts only on such an item, never on a perp.
C6_MalformedFutureAborts ==
    /\ HasMalformedFuture(usdfut_info)
       => /\ pc \in {"start", "spot_parsed", "aborted"}
          /\ futures_rows = <<>>
          /\ coinfut_rows = <<>>
          /\ assets_csv = NoFile
    /\ HasMalformedFuture(coinfut_info)
       => /\ pc \in {"start", "spot_parsed", "usdfut_parsed", "aborted"}
          /\ coinfut_rows = <<>>
          /\ assets_csv = NoFile
    /\ pc = "aborted"
       => HasMalformedFuture(usdfut_info) \/ HasMalformedFuture(coinfut_info)

\* The run stopped in the coin-margined document on a malformed future that
\* is not its first item, after the USD-margined document gave records.
C6_Witness ==
    /\ pc = "aborted"
    /\ Len(futures_rows) > 0
    /\ Len(coinfut_info.symbols) = 3
    /\ ~MalformedFuture(coinfut_info.symbols[1])
    /\ coinfut_info.symbols[2].contractType = "PERPETUAL"
    /\ MalformedFuture(coinfut_info.symbols[3])
    /\ assets_csv = NoFile

\* The native symbols of the classifiable items of a document, in order.
ClassifiableSymbols(data) ==
    LET kept == SelectSeq(data.symbols, Classifiable)
    IN [i \in 1..Len(kept) |-> kept[i].symbol]

RowSymbols(rows) == [i \in 1..Len(rows) |-> Field(rows[i], "symbol")]

\* C7: the list a derivative normalizer call returns holds one record per
\* item of contract type PERPETUAL, CURRENT_QUARTER or NEXT_QUARTER, in input
\* order, and nothing for any other item; and a run never aborts unless a
\* document holds an item classified as future.
C7_UnclassifiableSkipped ==
    /\ pc \in {"usdfut_parsed", "coinfut_parsed", "done"}
       => RowSymbols(futures_rows) = ClassifiableSymbols(usdfut_info)
    /\ pc \in {"coinfut_parsed", "done"}
       => RowSymbols(coinfut_rows) = ClassifiableSymbols(coinfut_info)
    /\ pc = "aborted" => HasFuture(usdfut_info) \/ HasFuture(coinfut_info)

\* An unclassifiable item between two classifiable ones was skipped, and the
\* run went on to write the file.
C7_Witness ==
    /\ pc = "done"
    /\ Len(coinfut_info.symbols) = 3
    /\ Classifiable(coinfut_info.symbols[1])
    /\ ~Classifiable(coinfut_info.symbols[2])
    /\ Classifiable(coinfut_info.symbols[3])
    /\ Len(coinfut_rows) = 2
    /\ \E i \in 1..Len(usdfut_info.symbols) :
          ~Classifiable(usdfut_info.symbols[i])

\* The position of a column in the header line, 0 when absent.
ColumnOf(header, name) ==
    IF \E i \in 1..Len(header) : header[i] = name
    THEN CHOOSE i \in 1..Len(header) : header[i] = name
    ELSE 0

\* The item of a document a CSV line was made from lacks underlyingType.
LineLacksUnderlyingType(header, cells, data, venue) ==
    /\ cells[ColumnOf(header, "venue")] = venue
    /\ \E i \in 1..Len(data.symbols) :
          /\ data.symbols[i].symbol = cells[ColumnOf(header, "symbol")]
          /\ "underlyingType" \notin DOMAIN data.symbols[i]

\* C8: a derivative record has the field underlyingType only when its item
\* carries it, and in the CSV file the underlyingType cell of a record whose
\* item does not carry it is empty.
C8_UnderlyingTypeOnlyWhenPresent ==
    /\ \A r \in Range(futures_rows) :
          DictHas(r, "underlyingType")
          => \E i \in 1..Len(usdfut_info.symbols) :
                /\ usdfut_info.symbols[i].symbol = Field(r, "symbol")
                /\ "underlyingType" \in DOMAIN usdfut_info.symbols[i]
    /\ \A r \in Range(coinfut_rows) :
          DictHas(r, "underlyingType")
          => \E i \in 1..Len(coinfut_info.symbols) :
                /\ coinfut_info.symbols[i].symbol = Field(r, "symbol")
                /\ "underlyingType" \in DOMAIN coinfut_info.symbols[i]
    /\ pc = "done"
       => LET header == split(assets_csv.text[1], ",")
          IN \A n \in 2..Len(assets_csv.text) :
                LET cells == split(assets_csv.text[n], ",")
                IN (\/ LineLacksUnderlyingType(header, cells, usdfut_info,
                                               "binance_usdfut")
                    \/ LineLacksUnderlyingType(header, cells, coinfut_info,
                                               "binance_coinfut"))
                   => cells[ColumnOf(header, "underlyingType")] = ""

-----------------------------------------------------------------------------
(* Properties of simplify_future_native_code (SpecFuture)                  *)

\* F G H J K M N Q U V X Z, January first.
MonthCodeTable == <<"F", "G", "H", "J", "K", "M", "N", "Q", "U", "V", "X", "Z">>

\* The two digits of a month number.
MonthText(m) == Char(Digits, (m \div 10) + 1) \o Char(Digits, (m % 10) + 1)

\* C5 as stated: for <root>_<YYMMDD> with MM in 01..12 the function returns
\* the two characters <monthCode><lastDigitOfYear>.
C5_ReturnsTwoCharacterCode ==
    pc = "done"
    => \A root \in FutureRoots, yy \in FutureYears, dd \in FutureDays :
         \A m \in 1..12 :
            args = FutureSymbol(root, yy, MonthText(m), dd)
            => ret = Return(MonthCodeTable[m] \o Char(yy, 2))

\* C5 as the code has it: for <root>_<YYMMDD> with MM in 01..12 and no "_" in
\* root, the function returns <monthCode><lastDigitOfYear> followed by ".BNC".
C5_ReturnsCodeWithVenueSuffix ==
    pc = "done"
    => \A root \in FutureRoots, yy \in FutureYears, dd \in FutureDays :
         \A m \in 1..12 :
            args = FutureSymbol(root, yy, MonthText(m), dd)
            => ret = Return(MonthCodeTable[m] \o Char(yy, 2) \o ".BNC")

\* The example of the specification: March 2024.
C5_Witness ==
    /\ pc = "done"
    /\ args = "BTCUSDT_240329"
    /\ ret = Return("H4.BNC")

\* C10: for a two-part symbol with a 6-digit date part whose month digits are
\* outside 01..12 the function raises.
C10_MonthOutOfRangeFails ==
    pc = "done"
    => \A root \in FutureRoots, yy \in FutureYears, dd \in FutureDays :
         \A m \in (0..99) \ (1..12) :
            args = FutureSymbol(root, yy, MonthText(m), dd) => ret.exc # ""

-----------------------------------------------------------------------------
(* Properties of extract_header_cols (SpecHeader)                          *)

\* The names of keys that are not in seen, each once, in first-occurrence
\* order.
RECURSIVE FirstOccurrences(_, _)
FirstOccurrences(keys, seen) ==
    IF Len(keys) = 0 THEN <<>>
    ELSE IF Head(keys) \in seen THEN FirstOccurrences(Tail(keys), seen)
    ELSE <<Head(keys)>>
         \o FirstOccurrences(Tail(keys), seen \cup {Head(keys)})

\* C3: the result is the key field followed by every other field name of the
\* records, each exactly once, in order of first occurrence.
C3_KeyThenFirstOccurrences ==
    pc = "done"
    => ret = <<args.index_field>>
             \o FirstOccurrences(all_keys(args.rows), {args.index_field})

-----------------------------------------------------------------------------
(* Properties of write_csv_file (SpecCsv)                                  *)

RowKey(row) == Field(row, args.index_field)

\* rows[j] is the first record of the list with its key value.
FirstWithKey(j) ==
    \A i \in 1..(j - 1) : RowKey(args.rows[i]) # RowKey(args.rows[j])

\* The line of a record under the header the file starts with.
LineOf(row) ==
    LET header == split(assets_csv.text[1], args.delim)
    IN join(args.delim,
            [c \in 1..Len(header) |-> str(DictGet(row, header[c], PyStr("")))])

\* The key cell of a line of the file: the header starts with the key field.
LineKey(line) == split(line, args.delim)[1]

\* C4: after the header the file has one line per distinct key value, made
\* from the first record with that key, in ascending order of key.
C4_FirstPerKeyAscending ==
    pc = "done"
    => LET data == Tail(assets_csv.text)
       IN /\ ret = ""
          /\ Len(data) = Cardinality({RowKey(args.rows[j]) :
                                         j \in 1..Len(args.rows)})
          /\ \A n \in 1..Len(data) :
                \E j \in 1..Len(args.rows) :
                   FirstWithKey(j) /\ data[n] = LineOf(args.rows[j])
          /\ \A n \in 1..(Len(data) - 1) :
                StrLess(LineKey(data[n]), LineKey(data[n + 1]))

\* Two records share a key and differ, and the input is not in key order.
C4_Witness ==
    /\ pc = "done"
    /\ Len(args.rows) = 3
    /\ RowKey(args.rows[1]) = RowKey(args.rows[3])
    /\ args.rows[1] # args.rows[3]
    /\ StrLess(RowKey(args.rows[2]), RowKey(args.rows[1]))
    /\ Len(assets_csv.text) = 3

-----------------------------------------------------------------------------
(* Properties of the filter loops (SpecFilters)                            *)

ConstraintFields ==
    {"minQty", "maxQty", "lotQty", "minNotional", "tickSize", "maxNumOrders"}

\* Two records have the same constraint fields with the same values.
SameConstraints(r1, r2) ==
    \A f \in ConstraintFields :
        /\ DictHas(r1, f) <=> DictHas(r2, f)
        /\ DictGet(r1, f, PyNone) = DictGet(r2, f, PyNone)

\* No filterType occurs in two entries that differ.
NoConflictingEntries(fs) ==
    \A i, j \in 1..Len(fs) : fs[i].filterType = fs[j].filterType => fs[i] = fs[j]

\* C9 as stated: a filter list and any permutation of it give the same
\* constraint fields, in either normalizer.
C9_FilterOrderInsignificant ==
    pc = "done" => SameConstraints(ret.given[1], ret.permuted[1])

\* C9 restricted to filter lists in which no filterType occurs in two
\* entries with different values.
C9_OrderInsignificantWithoutConflicts ==
    (pc = "done" /\ NoConflictingEntries(args.filters))
    => SameConstraints(ret.given[1], ret.permuted[1])

\* Three different entries in another order, with fields extracted.
C9_Witness ==
    /\ pc = "done"
    /\ NoConflictingEntries(args.filters)
    /\ Len(args.filters) = 3
    /\ args.filters[1] # args.filters[2]
    /\ args.filters[1] = args.permuted[3]
    /\ DictHas(ret.given[1], "minQty")
    /\ DictHas(ret.permuted[1], "tickSize")

=============================================================================
